---------------------------- MODULE Spec2Model ----------------------------
(***************************************************************************)
(* Model of src/src/xml_to_xlsx.py: the batch conversion of contact-lens   *)
(* catalogue XML files into spreadsheets.                                  *)
(*                                                                         *)
(* Representation of an input file.  A document is the sequence `nodes` of *)
(* its manufacturer, product and upc elements in document order, plus the  *)
(* flag `wellFormed`.  Nesting is implicit in the order:                   *)
(*   - a manufacturer element is a child of the root;                      *)
(*   - a product element is a child of the nearest preceding manufacturer, *)
(*     or of the root when there is none;                                  *)
(*   - a upc entry is a child of the nearest preceding manufacturer or     *)
(*     product element, or of the root when there is none.                 *)
(* A upc entry with n = k stands for k consecutive sibling <upc> elements  *)
(* carrying the same attributes (a run), so that documents with more than  *)
(* a million <upc> elements are ordinary values.  Lists of rows use the    *)
(* same run-length form.  A document with wellFormed = FALSE is a file     *)
(* whose text ends in a syntax error right after the listed elements (a    *)
(* truncated tag): every listed upc element is complete, the elements      *)
(* still open are never closed.                                            *)
(***************************************************************************)
EXTENDS Integers, Sequences, FiniteSets, TLC

VARIABLES
    listing,           \* os.listdir(XML_INPUT_DIR)
    idx,               \* position of the main loop in the listing
    pc,                \* where the program is
    filename,          \* the file being processed
    doc,               \* its content
    max_upc_estimate,  \* the early-exit threshold count_upc_elements is given
    upc_count,         \* parse_contact_lens_xml: the estimate
    df,                \* what parse_contact_lens_xml returned
    log,               \* the lines of LOG_FILE
    log0,              \* the lines LOG_FILE held when the run began
    xlsx,              \* the files of XLSX_OUTPUT_DIR
    console,           \* what was printed
    handed,            \* the files handed to parse_contact_lens_xml
    parsed,            \* the files ET.parse was called on
    logExists,         \* whether LOG_FILE exists
    logFault,          \* whether a write to LOG_FILE has failed
    faults,            \* what the environment did to the two reads of the file
    printFault,        \* whether a print has raised OSError
    stdout             \* the encoding of sys.stdout

vars == <<listing, idx, pc, filename, doc, max_upc_estimate, upc_count, df,
          log, log0, logExists, xlsx, console, handed, parsed, logFault,
          faults, printFault, stdout>>

---------------------------------------------------------------------------
(* Bounds of the model. *)

\* Longest document: number of manufacturer/product/upc entries.
MaxNodes == 6

\* Longest directory listing.
MaxFiles == 2

---------------------------------------------------------------------------
(* Program constants. *)

\* count_upc_elements: default of max_upc_estimate.
DefaultMaxUpcEstimate == 1200000

\* parse_contact_lens_xml: the pre-flight limit on the estimate.
UpcLimit == 1000000

\* parse_contact_lens_xml: the row limit of one sheet.
ExcelMax == 1048576

\* Python's None.
None == [kind |-> "None"]

IntVal(n) == [kind |-> "int", val |-> n]

---------------------------------------------------------------------------
(* Generic helpers on sequences. *)

RECURSIVE ConcatAll(_)
ConcatAll(ss) ==
    IF ss = <<>> THEN <<>> ELSE Head(ss) \o ConcatAll(Tail(ss))

RECURSIVE SumN(_)
SumN(runs) ==
    IF runs = <<>> THEN 0 ELSE Head(runs).n + SumN(Tail(runs))

Indices(s) == [i \in 1..Len(s) |-> i]

\* All sequences over S of length at most k.
RECURSIVE SeqsUpTo(_, _)
SeqsUpTo(S, k) ==
    IF k = 0 THEN {<<>>}
    ELSE LET shorter == SeqsUpTo(S, k - 1)
         IN  shorter \cup {Append(s, x) : s \in {t \in shorter : Len(t) = k - 1}, x \in S}

---------------------------------------------------------------------------
(* File names: sequences of characters. *)

UpperChars == <<"A","B","C","D","E","F","G","H","I","J","K","L","M",
                "N","O","P","Q","R","S","T","U","V","W","X","Y","Z">>

LowerChars == <<"a","b","c","d","e","f","g","h","i","j","k","l","m",
                "n","o","p","q","r","s","t","u","v","w","x","y","z">>

\* str.lower on one character.
LowerChar(c) ==
    IF \E i \in 1..Len(UpperChars) : UpperChars[i] = c
    THEN LowerChars[CHOOSE i \in 1..Len(UpperChars) : UpperChars[i] = c]
    ELSE c

\* str.lower
lower(s) == [i \in 1..Len(s) |-> LowerChar(s[i])]

\* str.endswith with one suffix.
endswith(s, suffix) ==
    /\ Len(suffix) <= Len(s)
    /\ SubSeq(s, Len(s) - Len(suffix) + 1, Len(s)) = suffix

\* The test of the main loop: filename.lower().endswith(('.xml', '.XML')).
IsXmlName(name) ==
    \/ endswith(lower(name), <<".", "x", "m", "l">>)
    \/ endswith(lower(name), <<".", "X", "M", "L">>)

\* os.path.splitext(filename)[0]: the name up to its last dot, the whole
\* name when it has no dot or only leading dots before it.
splitext_root(name) ==
    LET dots == {i \in 1..Len(name) : name[i] = "."}
    IN  IF dots = {} THEN name
        ELSE LET d == CHOOSE i \in dots : \A j \in dots : j <= i
             IN  IF \E j \in 1..(d - 1) : name[j] # "."
                 THEN SubSeq(name, 1, d - 1)
                 ELSE name

\* f"{base_name}.xlsx"
output_filename(name) == splitext_root(name) \o <<".", "x", "l", "s", "x">>

Names ==
    { <<"a", ".", "x", "m", "l">>,
      <<"a", ".", "X", "m", "l">>,
      <<"c", ".", "t", "x", "t">> }

Listings ==
    {s \in SeqsUpTo(Names, MaxFiles) :
        \A i, j \in 1..Len(s) : i # j => s[i] # s[j]}

---------------------------------------------------------------------------
(* Documents. *)

Tags == {"manufacturer", "product", "upc"}

\* Child elements read from a manufacturer and from a product, and the
\* attributes read from a upc element.
ManufFields == {"mCode", "mDesc"}

CommonProductFields == {"pCode", "pDesc", "qty", "qtyUnit"}

NewerProductFields == {"pTrialOrRev", "pModality", "pType"}

UpcAttributes == {"id", "power", "basecurve", "diameter", "color", "color2",
                  "cylinder", "axis", "design", "add"}

\* The text of a field of the i-th entry of a document: distinct entries
\* carry distinct texts.
TextOf(field, i) == field \o "-" \o ToString(i)

\* Which fields the elements of a document carry:
\*   new     the newer schema, every field present;
\*   old     the older schema, without pTrialOrRev/pModality/pType;
\*   sparse  only the codes, the product mode and the ids;
\*   empty   no child element and no attribute at all.
Schemas == {"new", "old", "sparse", "empty"}

PresentText(tag, schema) ==
    IF tag = "manufacturer"
    THEN CASE schema \in {"new", "old"} -> ManufFields
           [] schema = "sparse"         -> {"mCode"}
           [] OTHER                     -> {}
    ELSE IF tag = "product"
    THEN CASE schema = "new"    -> CommonProductFields \cup NewerProductFields
           [] schema = "old"    -> CommonProductFields
           [] schema = "sparse" -> {"pCode"}
           [] OTHER             -> {}
    ELSE {}

PresentAttrib(tag, schema) ==
    IF tag = "product"
    THEN (IF schema \in {"new", "old", "sparse"} THEN {"mode"} ELSE {})
    ELSE IF tag = "upc"
    THEN CASE schema \in {"new", "old"} -> UpcAttributes
           [] schema = "sparse"         -> {"id"}
           [] OTHER                     -> {}
    ELSE {}

\* The i-th entry of a document: an element with its child texts and its
\* attributes; n is the length of the run (1 unless the entry is a upc run).
MkNode(tag, schema, i, n) ==
    [tag    |-> tag,
     text   |-> [f \in PresentText(tag, schema) |-> TextOf(f, i)],
     attrib |-> [a \in PresentAttrib(tag, schema) |-> TextOf(a, i)],
     n      |-> n]

\* Sizes of the first upc run of a document; every other upc entry is a
\* single element.
BulkSizes == {1, 2, UpcLimit - 1, ExcelMax - 1, DefaultMaxUpcEstimate - 1}

MkDoc(tags, schema, bulk, wellFormed) ==
    LET firstUpc(i) == tags[i] = "upc" /\ \A j \in 1..(i - 1) : tags[j] # "upc"
    IN  [nodes      |-> [i \in 1..Len(tags) |->
                            MkNode(tags[i], schema, i,
                                   IF firstUpc(i) THEN bulk ELSE 1)],
         wellFormed |-> wellFormed]

Docs ==
    {MkDoc(t, s, b, w) : t \in SeqsUpTo(Tags, MaxNodes), s \in Schemas,
                         b \in BulkSizes, w \in BOOLEAN}

\* The documents of the batch runs: no element at all, a product without
\* upc, one upc, and upc runs that end one below, at and one above the
\* pre-flight limit and the row limit; and two files whose text ends in a
\* syntax error.
BatchDocs ==
    {MkDoc(<<>>, "new", 1, TRUE),
     MkDoc(<<"manufacturer", "product">>, "new", 1, TRUE),
     MkDoc(<<"manufacturer", "product", "upc">>, "new", 1, TRUE)}
    \cup {MkDoc(t, "new", b, TRUE) :
            t \in {<<"manufacturer", "product", "upc">>,
                   <<"manufacturer", "product", "upc", "upc">>,
                   <<"manufacturer", "product", "upc", "upc", "upc">>},
            b \in {UpcLimit - 1, ExcelMax - 1}}
    \cup {MkDoc(t, "new", 1, FALSE) :
            t \in {<<>>, <<"manufacturer", "product", "upc">>}}

NoDoc == [nodes |-> <<>>, wellFormed |-> FALSE]

\* The parent of entry i: 0 is the root element.
ParentOf(nodes, i) ==
    LET above == IF nodes[i].tag = "manufacturer" THEN {}
                 ELSE IF nodes[i].tag = "product"
                 THEN {j \in 1..(i - 1) : nodes[j].tag = "manufacturer"}
                 ELSE {j \in 1..(i - 1) : nodes[j].tag # "upc"}
    IN  IF above = {} THEN 0 ELSE CHOOSE j \in above : \A k \in above : k <= j

---------------------------------------------------------------------------
(* xml.etree.ElementTree, as far as the program uses it. *)

\* Variant: findtext without default='', which gives None for a missing
\* child.
findtext_NoDefault(node, tag) ==
    IF tag \in DOMAIN node.text THEN node.text[tag] ELSE "None"

\* Element.findtext(tag, default=''): the text of the child, '' when the
\* element has no such child.
findtext(node, tag) ==
    IF tag \in DOMAIN node.text THEN node.text[tag] ELSE ""

\* Element.get(key, default).
get(node, key, default) ==
    IF key \in DOMAIN node.attrib THEN node.attrib[key] ELSE default

\* ET.parse(filepath).getroot(): the tree, or the exception raised.
ET_parse(d) ==
    IF d.wellFormed
    THEN [raised |-> "none",
          nodes  |-> d.nodes,
          parent |-> [i \in 1..Len(d.nodes) |-> ParentOf(d.nodes, i)]]
    ELSE [raised |-> "ParseError", nodes |-> <<>>, parent |-> <<>>]

\* root.findall('.//manufacturer'): every descendant of the root with the
\* tag, in document order.
findall_descendants(tree, tag) ==
    SelectSeq(Indices(tree.nodes), LAMBDA i : tree.nodes[i].tag = tag)

\* Variant: the search starts at the root (root.findall('.//tag')) instead
\* of at the element.
findall_FromRoot(tree, elem, tag) ==
    SelectSeq(Indices(tree.nodes), LAMBDA i : tree.nodes[i].tag = tag)

\* elem.findall(tag): the direct children with the tag, in document order.
findall(tree, elem, tag) ==
    SelectSeq(Indices(tree.nodes),
              LAMBDA i : tree.nodes[i].tag = tag /\ tree.parent[i] = elem)

\* ET.iterparse(filepath, events=("end",)): the end events in the order the
\* parser delivers them, as runs [tag, n], and how the stream ends.  An
\* element's end event follows those of its children; the elements still
\* open when a syntax error is met deliver no end event.
EndEventsBefore(nodes, i) ==
    LET above   == {j \in 1..(i - 1) : nodes[j].tag # "upc"}
        last    == IF above = {} THEN 0
                   ELSE CHOOSE j \in above : \A k \in above : k <= j
        openP   == last # 0 /\ nodes[last].tag = "product"
        openM   == \E j \in above : nodes[j].tag = "manufacturer"
        closing == IF i > Len(nodes) THEN "root" ELSE nodes[i].tag
        closeP  == IF openP /\ closing # "upc"
                   THEN <<[tag |-> "product", n |-> 1]>> ELSE <<>>
        closeM  == IF openM /\ closing \in {"manufacturer", "root"}
                   THEN <<[tag |-> "manufacturer", n |-> 1]>> ELSE <<>>
    IN  closeP \o closeM

FieldOrder == <<"mCode", "mDesc", "pCode", "pDesc", "qty", "qtyUnit",
                "pTrialOrRev", "pModality", "pType">>

EndEventsOf(node) ==
    IF node.tag = "upc"
    THEN <<[tag |-> "upc", n |-> node.n]>>
    ELSE LET present == SelectSeq(FieldOrder, LAMBDA f : f \in DOMAIN node.text)
         IN  [k \in 1..Len(present) |-> [tag |-> present[k], n |-> 1]]

\* fault is what the environment does to the read: "none", or the exception
\* raised when the file is opened.
iterparse(d, fault) ==
    IF fault # "none"
    THEN [events |-> <<>>, raises |-> fault]
    ELSE LET nodes == d.nodes
             upTo  == ConcatAll([i \in 1..Len(nodes) |->
                          EndEventsBefore(nodes, i) \o EndEventsOf(nodes[i])])
         IN  IF d.wellFormed
             THEN [events |-> upTo \o EndEventsBefore(nodes, Len(nodes) + 1)
                                   \o <<[tag |-> "root", n |-> 1]>>,
                   raises |-> "none"]
             ELSE [events |-> upTo, raises |-> "ParseError"]

---------------------------------------------------------------------------
(* count_upc_elements *)

\* Variant: the loop without its early exit.
RECURSIVE CountLoop_NoEarlyExit(_, _, _)
CountLoop_NoEarlyExit(events, count, max) ==
    IF events = <<>> THEN [exit |-> FALSE, count |-> count]
    ELSE CountLoop_NoEarlyExit(Tail(events),
                               IF Head(events).tag = "upc"
                               THEN count + Head(events).n ELSE count,
                               max)

\* The loop over the end events, a run at a time: [exit, count] is whether
\* the early exit returned, and the count then or when the events ran out.
\* Within a run the count grows by one per element and the loop returns at
\* the first element that takes it above max.
RECURSIVE CountLoop(_, _, _)
CountLoop(events, count, max) ==
    IF events = <<>> THEN [exit |-> FALSE, count |-> count]
    ELSE LET e == Head(events)
         IN  IF e.tag = "upc"
             THEN IF count + e.n > max
                  THEN [exit  |-> TRUE,
                        count |-> IF count > max THEN count + 1 ELSE max + 1]
                  ELSE CountLoop(Tail(events), count + e.n, max)
             ELSE CountLoop(Tail(events), count, max)

count_upc_elements(stream, max) ==
    LET r == CountLoop(stream.events, 0, max)
    IN  IF r.exit THEN IntVal(r.count)
        ELSE IF stream.raises = "none" THEN IntVal(r.count)
        ELSE None

---------------------------------------------------------------------------
(* parse_contact_lens_xml: the traversal and the table. *)

\* The keys of a row, in the order the dict literal lists them.
RowKeys == <<"Manufacturer_Code", "Manufacturer_Desc", "Product_Code",
             "Product_Desc", "Product_Mode", "Trial_or_Revenue", "Modality",
             "Product_Type", "Quantity", "Quantity_Unit", "UPC_ID", "Power",
             "Base_Curve", "Diameter", "Color", "Color2", "Cylinder", "Axis",
             "Design", "Add">>

\* Variant: the list without 'Color2'.
column_order_Short ==
    <<"Manufacturer_Code", "Manufacturer_Desc",
      "Product_Code", "Product_Desc", "Product_Mode",
      "Trial_or_Revenue", "Modality", "Product_Type",
      "Quantity", "Quantity_Unit",
      "UPC_ID", "Power", "Base_Curve", "Diameter",
      "Color", "Cylinder", "Axis", "Design", "Add">>


column_order == <<"Manufacturer_Code", "Manufacturer_Desc",
                  "Product_Code", "Product_Desc", "Product_Mode",
                  "Trial_or_Revenue", "Modality", "Product_Type",
                  "Quantity", "Quantity_Unit",
                  "UPC_ID", "Power", "Base_Curve", "Diameter",
                  "Color", "Color2", "Cylinder", "Axis", "Design", "Add">>

\* The row of one upc element.
Row(manuf, prod, upc) ==
    [Manufacturer_Code |-> findtext(manuf, "mCode"),
     Manufacturer_Desc |-> findtext(manuf, "mDesc"),
     Product_Code      |-> findtext(prod, "pCode"),
     Product_Desc      |-> findtext(prod, "pDesc"),
     Product_Mode      |-> get(prod, "mode", ""),
     Trial_or_Revenue  |-> findtext(prod, "pTrialOrRev"),
     Modality          |-> findtext(prod, "pModality"),
     Product_Type      |-> findtext(prod, "pType"),
     Quantity          |-> findtext(prod, "qty"),
     Quantity_Unit     |-> findtext(prod, "qtyUnit"),
     UPC_ID            |-> get(upc, "id", ""),
     Power             |-> get(upc, "power", ""),
     Base_Curve        |-> get(upc, "basecurve", ""),
     Diameter          |-> get(upc, "diameter", ""),
     Color             |-> get(upc, "color", ""),
     Color2            |-> get(upc, "color2", ""),
     Cylinder          |-> get(upc, "cylinder", ""),
     Axis              |-> get(upc, "axis", ""),
     Design            |-> get(upc, "design", ""),
     Add               |-> get(upc, "add", "")]

\* for upc in prod.findall('upc'): rows.append(row)
RowsOfProduct(tree, m, p) ==
    LET upcs == findall(tree, p, "upc")
    IN  [k \in 1..Len(upcs) |->
            [row |-> Row(tree.nodes[m], tree.nodes[p], tree.nodes[upcs[k]]),
             n   |-> tree.nodes[upcs[k]].n]]

\* for prod in manuf.findall('product')
RowsOfManufacturer(tree, m) ==
    LET prods == findall(tree, m, "product")
    IN  ConcatAll([k \in 1..Len(prods) |-> RowsOfProduct(tree, m, prods[k])])

\* for manuf in root.findall('.//manufacturer')
ExtractRows(tree) ==
    LET manufs == findall_descendants(tree, "manufacturer")
    IN  ConcatAll([k \in 1..Len(manufs) |-> RowsOfManufacturer(tree, manufs[k])])

\* pd.DataFrame(rows): the columns are the keys of the rows, in the order
\* of their first appearance.
DataFrame(rows) ==
    [columns |-> SelectSeq(RowKeys,
                    LAMBDA c : \E k \in 1..Len(rows) : c \in DOMAIN rows[k].row),
     rows    |-> rows]

\* df[cols]
SelectColumns(frame, cols) ==
    [columns |-> cols,
     rows    |-> [k \in 1..Len(frame.rows) |->
                    [row |-> [c \in {cols[j] : j \in 1..Len(cols)} |->
                                 frame.rows[k].row[c]],
                     n   |-> frame.rows[k].n]]]

\* len(df)
len(frame) == SumN(frame.rows)

\* df.empty
empty(frame) == len(frame) = 0 \/ Len(frame.columns) = 0

NoFrame == [columns |-> <<>>, rows |-> <<>>]

\* Variant: no final row-limit check.
ReturnOf_NoRowLimit(rows, ordered) ==
    IF rows = <<>>
    THEN [kind |-> "empty", exception |-> "none", frame |-> NoFrame]
    ELSE [kind |-> "table", exception |-> "none", frame |-> ordered]

\* How the try block ends once the rows are extracted: no row at all, more
\* rows than a sheet holds, or the table.  `ordered` is the table in the
\* canonical column order (built only when there are rows).
ReturnOf(rows, ordered) ==
    IF rows = <<>>
    THEN [kind |-> "empty", exception |-> "none", frame |-> NoFrame]
    ELSE IF len(ordered) > ExcelMax
    THEN [kind |-> "too many rows", exception |-> "none", frame |-> ordered]
    ELSE [kind |-> "table", exception |-> "none", frame |-> ordered]

\* The try block of parse_contact_lens_xml, up to what it returns or
\* raises.  fault is what the environment does: "none", or the exception
\* ET.parse or pandas raises (MemoryError, OSError).
TryBlock(d, fault) ==
    IF fault # "none"
    THEN [kind |-> "raised", exception |-> fault, frame |-> NoFrame]
    ELSE LET tree == ET_parse(d)
         IN  IF tree.raised # "none"
             THEN [kind |-> "raised", exception |-> tree.raised, frame |-> NoFrame]
             ELSE LET rows      == ExtractRows(tree)
                      frame     == DataFrame(rows)
                      available == SelectSeq(column_order,
                                      LAMBDA col : \E j \in 1..Len(frame.columns) :
                                                      frame.columns[j] = col)
                      ordered   == SelectColumns(frame, available)
                  IN  ReturnOf(rows, ordered)

---------------------------------------------------------------------------
(* The skip log and the console. *)

Reason(kind, detail) == [kind |-> kind, detail |-> detail]

\* The encodings sys.stdout may have, and the characters each can encode
\* among those the script prints: the two messages with an arrow (U+2192)
\* are "SKIPPED & LOGGED" and "Saved"; every other message is ASCII.
Encodings == {"utf-8", "ascii"}

ArrowMessages == {"SKIPPED & LOGGED", "Saved"}

\* print(msg) raises UnicodeEncodeError.
PrintRaises(encoding, msg) == encoding = "ascii" /\ msg \in ArrowMessages

\* print(msg) about `file` with the console holding `out`: the outcomes.
\* A message stdout cannot encode raises UnicodeEncodeError before
\* anything is written.  One it can encode is written in two writes, the
\* text and then the end of line, and either may raise OSError (stdout on
\* a full device, a closed pipe): the print raises with nothing on the
\* console, or with the message already there.
PrintOutcomes(out, msg, file) ==
    IF PrintRaises(stdout, msg)
    THEN {[console |-> out, raised |-> "UnicodeEncodeError"]}
    ELSE {[console |-> Append(out, [msg |-> msg, file |-> file]),
           raised  |-> "none"],
          [console |-> out, raised |-> "OSError"],
          [console |-> Append(out, [msg |-> msg, file |-> file]),
           raised  |-> "OSError"]}

\* What the environment can do to the append to LOG_FILE: let it
\* through, refuse to open the file, refuse the write before anything
\* has reached the file, or refuse it after a part of the line has.
LogWriteFaults == {"none", "open", "write", "torn"}

\* The part of a line a refused write leaves at the end of LOG_FILE.  It
\* is no entry of any file.
Fragment == [filename |-> <<>>, reason |-> Reason("FRAGMENT", "")]

\* log_skipped_file(name, reason) with LOG_FILE holding `lines` and the
\* console `out`: the outcomes of the call.  open(LOG_FILE, "a") creates
\* the file if it is not there (`opened`).  The line is appended (the
\* timestamp is left out; a number in a reason is written without
\* thousands separators) unless the open or the write raises, and then
\* the message is printed, which may raise too: the call can raise with
\* the line written, and with the message printed.
log_skipped_file(lines, out, name, reason) ==
    UNION {
        CASE fault = "open" ->
                {[log |-> lines, opened |-> FALSE, console |-> out,
                  raised |-> "OSError",
                  logFault |-> TRUE, printFault |-> FALSE]}
          [] fault = "write" ->
                {[log |-> lines, opened |-> TRUE, console |-> out,
                  raised |-> "OSError",
                  logFault |-> TRUE, printFault |-> FALSE]}
          [] fault = "torn" ->
                {[log |-> Append(lines, Fragment), opened |-> TRUE,
                  console |-> out, raised |-> "OSError",
                  logFault |-> TRUE, printFault |-> FALSE]}
          [] OTHER ->
                {[log        |-> Append(lines, [filename |-> name,
                                                reason   |-> reason]),
                  opened     |-> TRUE,
                  console    |-> p.console,
                  raised     |-> p.raised,
                  logFault   |-> FALSE,
                  printFault |-> p.raised = "OSError"]
                    : p \in PrintOutcomes(out, "SKIPPED & LOGGED", name)}
        : fault \in LogWriteFaults}

\* A line an earlier run left in LOG_FILE.
EarlierLine ==
    [filename |-> <<"a", ".", "x", "m", "l">>,
     reason   |-> Reason("XML parse error", "earlier run")]

\* What the environment can do to a read of the input file.
EstimateFaults == {"none", "OSError"}

ParseFaults == {"none", "MemoryError", "OSError"}

NoFaults == [estimate |-> "none", parse |-> "none"]

---------------------------------------------------------------------------
(* The program. *)

\* The banner of lines 146-148, which is not kept in `console`: the three
\* prints succeed, or one raises and the script ends before the loop.
Start ==
    /\ pc = "start"
    /\ \E p \in PrintOutcomes(console, "Processing XML files from", <<>>) :
          /\ pc' = IF p.raised = "none" THEN "loop" ELSE "crashed"
          /\ printFault' = (printFault \/ p.raised = "OSError")
    /\ UNCHANGED <<stdout, logExists, listing, idx, filename, doc, max_upc_estimate,
                   upc_count, df, log, log0, xlsx, console, handed, parsed,
                   logFault, faults>>

\* A call of log_skipped_file from parse_contact_lens_xml with outcome o,
\* where no try block encloses the call: the function returns None after
\* it, or the exception leaves the function and ends the script.
LogThenReturnNone(o) ==
    /\ log' = o.log
    /\ logExists' = (logExists \/ o.opened)
    /\ console' = o.console
    /\ logFault' = (logFault \/ o.logFault)
    /\ printFault' = (printFault \/ o.printFault)
    /\ IF o.raised = "none"
       THEN df' = None /\ pc' = "driver"
       ELSE df' = df /\ pc' = "crashed"

\* for filename in os.listdir(XML_INPUT_DIR): a name without the extension
\* is passed over.
SkipOtherFile ==
    /\ pc = "loop"
    /\ idx < Len(listing)
    /\ ~IsXmlName(listing[idx + 1])
    /\ idx' = idx + 1
    /\ UNCHANGED <<stdout, logExists, listing, pc, filename, doc, max_upc_estimate,
                   upc_count, df, log, log0, xlsx, console, handed, parsed,
                   logFault, printFault, faults>>

\* The loop reaches an .xml file, whose content is one of `pool`, prints
\* its name and calls parse_contact_lens_xml on it; the print of line 155
\* may raise, and then the script ends before the call.
OpenFile(pool) ==
    /\ pc = "loop"
    /\ idx < Len(listing)
    /\ IsXmlName(listing[idx + 1])
    /\ idx' = idx + 1
    /\ filename' = listing[idx + 1]
    /\ \E d \in pool : doc' = d
    /\ upc_count' = None
    /\ df' = None
    /\ faults' = NoFaults
    /\ \E p \in PrintOutcomes(console, "Processing", listing[idx + 1]) :
          /\ console' = p.console
          /\ printFault' = (printFault \/ p.raised = "OSError")
          /\ IF p.raised = "none"
             THEN /\ handed' = Append(handed, listing[idx + 1])
                  /\ pc' = "estimate"
             ELSE /\ handed' = handed
                  /\ pc' = "crashed"
    /\ UNCHANGED <<stdout, logExists, listing, max_upc_estimate, log, log0, xlsx, parsed,
                   logFault>>

\* upc_count = count_upc_elements(filepath)
Estimate ==
    /\ pc = "estimate"
    /\ \E fault \in EstimateFaults :
          /\ upc_count' = count_upc_elements(iterparse(doc, fault), max_upc_estimate)
          /\ faults' = [faults EXCEPT !.estimate = fault]
    /\ pc' = "preflight"
    /\ UNCHANGED <<stdout, logExists, listing, idx, filename, doc, max_upc_estimate, df,
                   log, log0, xlsx, console, handed, parsed, logFault,
                   printFault>>

\* The test of the quick size pre-check.
PreflightRejects(count) == count # None /\ count.val > UpcLimit

\* if upc_count is not None and upc_count > 1000000: log and return None
PreflightReject ==
    /\ pc = "preflight"
    /\ PreflightRejects(upc_count)
    /\ \E o \in log_skipped_file(log, console, filename,
                                  Reason("Too many UPCs", ToString(upc_count.val))) :
          LogThenReturnNone(o)
    /\ UNCHANGED <<stdout, listing, idx, filename, doc, max_upc_estimate,
                   upc_count, log0, xlsx, handed, parsed, faults>>

PreflightPass ==
    /\ pc = "preflight"
    /\ ~PreflightRejects(upc_count)
    /\ pc' = "parse"
    /\ UNCHANGED <<stdout, logExists, listing, idx, filename, doc, max_upc_estimate,
                   upc_count, df, log, log0, xlsx, console, handed, parsed,
                   logFault, printFault, faults>>

\* The reason an except clause of parse_contact_lens_xml logs.
ExceptReason(exception) ==
    CASE exception = "MemoryError" -> Reason("MemoryError", "file too large")
      [] exception = "ParseError"  -> Reason("XML parse error", "ParseError")
      [] OTHER                     -> Reason("Unexpected error", exception)

\* An except clause of parse_contact_lens_xml, entered with the exception
\* `exception` when the try block has left LOG_FILE and the console as
\* `lines` and `out`, has opened LOG_FILE or not (`opened`) and has met
\* the faults lf and pf: it logs the reason and returns None, and nothing
\* catches what its call of log_skipped_file raises.
ExceptClause(exception, lines, out, opened, lf, pf) ==
    \E o \in log_skipped_file(lines, out, filename, ExceptReason(exception)) :
        /\ log' = o.log
        /\ logExists' = (logExists \/ opened \/ o.opened)
        /\ console' = o.console
        /\ logFault' = (logFault \/ lf \/ o.logFault)
        /\ printFault' = (printFault \/ pf \/ o.printFault)
        /\ IF o.raised = "none"
           THEN df' = None /\ pc' = "driver"
           ELSE df' = df /\ pc' = "crashed"

\* The try block and the except clauses of parse_contact_lens_xml.
FullParse ==
    /\ pc = "parse"
    /\ parsed' = Append(parsed, filename)
    /\ \E fault \in ParseFaults :
        LET out == TryBlock(doc, fault)
        IN  /\ faults' = [faults EXCEPT !.parse = fault]
            /\ \/ /\ out.kind = "table"
                  /\ df' = out.frame
                  /\ pc' = "driver"
                  /\ UNCHANGED <<log, logExists, console, logFault, printFault>>
               \* the print of line 106 is inside the try block: except
               \* Exception catches what it raises
               \/ /\ out.kind = "empty"
                  /\ \E p \in PrintOutcomes(console, "No <upc> elements found",
                                            filename) :
                        \/ /\ p.raised = "none"
                           /\ console' = p.console
                           /\ df' = None
                           /\ pc' = "driver"
                           /\ UNCHANGED <<log, logExists, logFault, printFault>>
                        \/ /\ p.raised # "none"
                           /\ ExceptClause(p.raised, log, p.console, FALSE,
                                           FALSE, TRUE)
               \* the call of line 127 is inside the try block: except
               \* Exception catches what it raises and logs again
               \/ /\ out.kind = "too many rows"
                  /\ \E o \in log_skipped_file(log, console, filename,
                                  Reason("Too many rows", ToString(len(out.frame)))) :
                        \/ /\ o.raised = "none"
                           /\ LogThenReturnNone(o)
                        \/ /\ o.raised # "none"
                           /\ ExceptClause(o.raised, o.log, o.console, o.opened,
                                           o.logFault, o.printFault)
               \/ /\ out.kind = "raised"
                  /\ ExceptClause(out.exception, log, console, FALSE, FALSE,
                                  FALSE)
    /\ UNCHANGED <<stdout, listing, idx, filename, doc, max_upc_estimate,
                   upc_count, log0, xlsx, handed>>

\* What the environment can do to the write of the output file.
ExcelFaults == {"none", "OSError"}

\* df.to_excel(output_path, index=False, engine="openpyxl"): the file
\* written, replacing one of the same name.
to_excel(files, frame, name) ==
    {f \in files : f.name # output_filename(name)}
        \cup {[name    |-> output_filename(name),
               source  |-> name,
               rows    |-> len(frame),
               columns |-> frame.columns]}

\* The rest of the loop body: write the table, or report the skip.
WriteOutput ==
    /\ pc = "driver"
    /\ \/ /\ df # None
          /\ ~empty(df)
          /\ \E fault \in ExcelFaults :
                \/ /\ fault = "none"
                   /\ xlsx' = to_excel(xlsx, df, filename)
                   /\ \E p \in PrintOutcomes(console, "Saved", filename) :
                         \/ /\ p.raised = "none"
                            /\ console' = p.console
                            /\ pc' = "loop"
                            /\ UNCHANGED <<log, logExists, logFault, printFault>>
                         \* the print of line 166 is inside the try block:
                         \* except Exception logs what it raises, and
                         \* nothing catches what that call raises
                         \/ /\ p.raised # "none"
                            /\ \E o \in log_skipped_file(log, p.console, filename,
                                           Reason("Excel write failed", p.raised)) :
                                  /\ log' = o.log
                                  /\ logExists' = (logExists \/ o.opened)
                                  /\ console' = o.console
                                  /\ logFault' = (logFault \/ o.logFault)
                                  /\ printFault' = (\/ printFault
                                                    \/ p.raised = "OSError"
                                                    \/ o.printFault)
                                  /\ pc' = IF o.raised = "none" THEN "loop"
                                           ELSE "crashed"
                \* to_excel raises: except Exception logs the failure
                \/ /\ fault # "none"
                   /\ xlsx' = xlsx
                   /\ \E o \in log_skipped_file(log, console, filename,
                                  Reason("Excel write failed", fault)) :
                         /\ log' = o.log
                         /\ logExists' = (logExists \/ o.opened)
                         /\ console' = o.console
                         /\ logFault' = (logFault \/ o.logFault)
                         /\ printFault' = (printFault \/ o.printFault)
                         /\ pc' = IF o.raised = "none" THEN "loop"
                                  ELSE "crashed"
       \* print("  Skipped") is outside any try block
       \/ /\ ~(df # None /\ ~empty(df))
          /\ \E p \in PrintOutcomes(console, "Skipped", filename) :
                /\ console' = p.console
                /\ printFault' = (printFault \/ p.raised = "OSError")
                /\ pc' = IF p.raised = "none" THEN "loop" ELSE "crashed"
          /\ UNCHANGED <<log, logExists, xlsx, logFault>>
    /\ UNCHANGED <<stdout, listing, idx, filename, doc, max_upc_estimate,
                   upc_count, df, log0, handed, parsed, faults>>

\* The listing is exhausted: print("\nProcessing complete."), which may
\* raise as any print.
Complete ==
    /\ pc = "loop"
    /\ idx = Len(listing)
    /\ \E p \in PrintOutcomes(console, "Processing complete", <<>>) :
          /\ console' = p.console
          /\ printFault' = (printFault \/ p.raised = "OSError")
          /\ pc' = IF p.raised = "none" THEN "final" ELSE "crashed"
    /\ UNCHANGED <<stdout, logExists, listing, idx, filename, doc,
                   max_upc_estimate, upc_count, df, log, log0, xlsx, handed,
                   parsed, logFault, faults>>

\* if os.path.exists(LOG_FILE): print("Check ... for any skipped/large
\* files."), the last statement of the script; the print may raise as any
\* print.
CheckLog ==
    /\ pc = "final"
    /\ IF logExists
       THEN \E p \in PrintOutcomes(console, "Check", <<>>) :
               /\ console' = p.console
               /\ printFault' = (printFault \/ p.raised = "OSError")
               /\ pc' = IF p.raised = "none" THEN "done" ELSE "crashed"
       ELSE /\ pc' = "done"
            /\ UNCHANGED <<console, printFault>>
    /\ UNCHANGED <<stdout, logExists, listing, idx, filename, doc,
                   max_upc_estimate, upc_count, df, log, log0, xlsx, handed,
                   parsed, logFault, faults>>

---------------------------------------------------------------------------
(* The batch run. *)

Init ==
    /\ listing \in Listings
    /\ idx = 0
    /\ pc = "start"
    /\ filename = <<>>
    /\ doc = NoDoc
    /\ max_upc_estimate = DefaultMaxUpcEstimate
    /\ upc_count = None
    /\ df = None
    /\ log \in {<<>>, <<EarlierLine>>}
    /\ log0 = log
    /\ logExists \in {b \in BOOLEAN : log # <<>> => b}
    /\ xlsx = {}
    /\ console = <<>>
    /\ handed = <<>>
    /\ parsed = <<>>
    /\ logFault = FALSE
    /\ printFault = FALSE
    /\ faults = NoFaults
    /\ stdout \in Encodings

Next ==
    \/ Start
    \/ SkipOtherFile
    \/ OpenFile(BatchDocs)
    \/ Estimate
    \/ PreflightReject
    \/ PreflightPass
    \/ FullParse
    \/ WriteOutput
    \/ Complete
    \/ CheckLog

Spec == Init /\ [][Next]_vars

\* The positions of the script: the banner, the head of the loop, the four
\* stages of one call of parse_contact_lens_xml, the last statement, the
\* normal end, and the end by an exception that nothing catches.
ProgramPoints ==
    {"start", "loop", "estimate", "preflight", "parse", "driver", "final",
     "done", "crashed"}

\* One step of the interpreter: a script that has not ended moves to another
\* position or to the next name of the listing.  Every step of Next is one,
\* and Next has a step in every state where the script has not ended (Spec
\* has no deadlock but at "done" and "crashed"), so that fairness on Step
\* is fairness on Next.
Step ==
    /\ pc \notin {"done", "crashed"}
    /\ pc' \in ProgramPoints
    /\ idx' \in {idx, idx + 1}
    /\ <<pc', idx'>> # <<pc, idx>>

\* The script is a single thread with no blocking call other than file
\* reads and writes, which return or raise: it runs on until it ends.
FairSpec == Spec /\ WF_<<pc, idx>>(Step)

---------------------------------------------------------------------------
(* One call of parse_contact_lens_xml, on any document. *)

ParserFile == <<"a", ".", "x", "m", "l">>

InitParser ==
    /\ listing = <<ParserFile>>
    /\ idx = 1
    /\ pc = "estimate"
    /\ filename = ParserFile
    /\ doc \in Docs
    /\ max_upc_estimate = DefaultMaxUpcEstimate
    /\ upc_count = None
    /\ df = None
    /\ log = <<>>
    /\ log0 = <<>>
    /\ logExists = FALSE
    /\ xlsx = {}
    /\ console = <<[msg |-> "Processing", file |-> ParserFile]>>
    /\ handed = <<ParserFile>>
    /\ parsed = <<>>
    /\ logFault = FALSE
    /\ printFault = FALSE
    /\ faults = NoFaults
    /\ stdout \in Encodings

NextParser ==
    \/ Estimate
    \/ PreflightReject
    \/ PreflightPass
    \/ FullParse

ParserSpec == InitParser /\ [][NextParser]_vars

---------------------------------------------------------------------------
(* One call of count_upc_elements, on any document and threshold. *)

Thresholds == {0, 1, 2, UpcLimit, DefaultMaxUpcEstimate}

InitEstimator ==
    /\ listing = <<ParserFile>>
    /\ idx = 1
    /\ pc = "estimate"
    /\ filename = ParserFile
    /\ doc \in Docs
    /\ max_upc_estimate \in Thresholds
    /\ upc_count = None
    /\ df = None
    /\ log = <<>>
    /\ log0 = <<>>
    /\ logExists = FALSE
    /\ xlsx = {}
    /\ console = <<>>
    /\ handed = <<>>
    /\ parsed = <<>>
    /\ logFault = FALSE
    /\ printFault = FALSE
    /\ faults = NoFaults
    /\ stdout = "utf-8"

NextEstimator == Estimate

EstimatorSpec == InitEstimator /\ [][NextEstimator]_vars

---------------------------------------------------------------------------
(* Vocabulary of the properties. *)

IsPrefix(s, t) == Len(s) <= Len(t) /\ SubSeq(t, 1, Len(s)) = s

Range(s) == {s[i] : i \in 1..Len(s)}

\* The lines this run added to the log, and those about one file.
NewLines == SubSeq(log, Len(log0) + 1, Len(log))

LinesFor(f) == SelectSeq(NewLines, LAMBDA l : l.filename = f)

RECURSIVE TotalOf(_, _)
TotalOf(nodes, I) ==
    IF I = {} THEN 0
    ELSE LET i == CHOOSE j \in I : TRUE
         IN  nodes[i].n + TotalOf(nodes, I \ {i})

\* The number of <upc> elements of a document, wherever they are.
UpcTotal(d) ==
    TotalOf(d.nodes, {i \in 1..Len(d.nodes) : d.nodes[i].tag = "upc"})

\* The leaf records of a document with their owners: <<m, p, u>> is a upc
\* entry u, the product p it is a child of and the manufacturer m that
\* product is a child of.
RowSources(d) ==
    {t \in (1..Len(d.nodes)) \X (1..Len(d.nodes)) \X (1..Len(d.nodes)) :
        /\ d.nodes[t[1]].tag = "manufacturer"
        /\ d.nodes[t[2]].tag = "product"
        /\ d.nodes[t[3]].tag = "upc"
        /\ ParentOf(d.nodes, t[2]) = t[1]
        /\ ParentOf(d.nodes, t[3]) = t[2]}

\* R: the number of rows a full traversal of the document extracts.
RowCount(d) == TotalOf(d.nodes, {t[3] : t \in RowSources(d)})

\* Document traversal order: by manufacturer, then product, then upc.
Before(s, t) ==
    \/ s[1] < t[1]
    \/ s[1] = t[1] /\ s[2] < t[2]
    \/ s[1] = t[1] /\ s[2] = t[2] /\ s[3] < t[3]

Rank(t, T) == Cardinality({s \in T : Before(s, t)}) + 1

\* Where each column comes from: the element (1 manufacturer, 2 product,
\* 3 upc), whether a child element's text or an attribute, and its name.
ColumnSource ==
    [Manufacturer_Code |-> <<1, "text", "mCode">>,
     Manufacturer_Desc |-> <<1, "text", "mDesc">>,
     Product_Code      |-> <<2, "text", "pCode">>,
     Product_Desc      |-> <<2, "text", "pDesc">>,
     Product_Mode      |-> <<2, "attrib", "mode">>,
     Trial_or_Revenue  |-> <<2, "text", "pTrialOrRev">>,
     Modality          |-> <<2, "text", "pModality">>,
     Product_Type      |-> <<2, "text", "pType">>,
     Quantity          |-> <<2, "text", "qty">>,
     Quantity_Unit     |-> <<2, "text", "qtyUnit">>,
     UPC_ID            |-> <<3, "attrib", "id">>,
     Power             |-> <<3, "attrib", "power">>,
     Base_Curve        |-> <<3, "attrib", "basecurve">>,
     Diameter          |-> <<3, "attrib", "diameter">>,
     Color             |-> <<3, "attrib", "color">>,
     Color2            |-> <<3, "attrib", "color2">>,
     Cylinder          |-> <<3, "attrib", "cylinder">>,
     Axis              |-> <<3, "attrib", "axis">>,
     Design            |-> <<3, "attrib", "design">>,
     Add               |-> <<3, "attrib", "add">>]

Columns == DOMAIN ColumnSource

SourceMissing(d, t, c) ==
    LET src  == ColumnSource[c]
        node == d.nodes[t[src[1]]]
    IN  IF src[2] = "text" THEN src[3] \notin DOMAIN node.text
        ELSE src[3] \notin DOMAIN node.attrib

SourceValue(d, t, c) ==
    LET src  == ColumnSource[c]
        node == d.nodes[t[src[1]]]
    IN  IF src[2] = "text" THEN node.text[src[3]] ELSE node.attrib[src[3]]

\* parse_contact_lens_xml has returned.
Returned == pc = "driver"

\* parse_contact_lens_xml has returned a table.
ReturnedTable == Returned /\ df # None

\* The document can be traversed in full: it is well formed and nothing
\* fails while it is parsed.
Traversable == doc.wellFormed /\ faults.parse = "none"

---------------------------------------------------------------------------
(* C1 *)

\* C1 as stated, for the documents with at least one row: whenever a full
\* traversal of the document gives 1 <= R <= 1,048,576 rows, the parser
\* returns a table of exactly R rows with the 20 canonical columns in
\* order.
C1_Original ==
    (Returned /\ Traversable /\ RowCount(doc) >= 1 /\ RowCount(doc) <= ExcelMax)
        => /\ df # None
           /\ len(df) = RowCount(doc)
           /\ Len(df.columns) = 20
           /\ df.columns = column_order

\* C1, amended: whenever the pre-flight does not reject the document (the
\* estimate is None or at most 1,000,000) and its full traversal gives
\* 1 <= R <= 1,048,576 rows, the parser returns a table of exactly R rows
\* with the 20 canonical columns in the canonical order.
C1_TableOfAcceptedDocument ==
    (/\ Returned
     /\ Traversable
     /\ ~(upc_count # None /\ upc_count.val > 1000000)
     /\ RowCount(doc) >= 1
     /\ RowCount(doc) <= 1048576)
        => /\ df # None
           /\ len(df) = RowCount(doc)
           /\ Len(df.columns) = 20
           /\ df.columns = column_order
           /\ \A k \in 1..Len(df.rows) : DOMAIN df.rows[k].row = Range(column_order)

\* A table of exactly 1,000,000 rows is returned, from more than one run.
C1_Witness ==
    /\ ReturnedTable
    /\ upc_count = IntVal(1000000)
    /\ len(df) = 1000000
    /\ Len(df.rows) >= 2

---------------------------------------------------------------------------
(* C7 *)

\* count_upc_elements has returned.
Estimated == pc = "preflight"

\* C7: count_upc_elements(path, t) returns None or a non-negative integer
\* in 0..t+1.  With n the number of <upc> elements of the document: when
\* the document streams without error the result is n if n <= t and t+1
\* if n > t; when the file cannot be opened the result is None; when the
\* text ends in a syntax error the result is t+1 if more than t <upc>
\* elements precede the error (the early exit comes first) and None
\* otherwise.
C7_EstimateIsCountOrNone ==
    Estimated =>
        LET t == max_upc_estimate
            n == UpcTotal(doc)
        IN  /\ upc_count # None => upc_count.val \in 0..(t + 1)
            /\ faults.estimate # "none" => upc_count = None
            /\ (faults.estimate = "none" /\ doc.wellFormed /\ n <= t)
                  => upc_count = IntVal(n)
            /\ (faults.estimate = "none" /\ n > t)
                  => upc_count = IntVal(t + 1)
            /\ (faults.estimate = "none" /\ ~doc.wellFormed /\ n <= t)
                  => upc_count = None

\* The early exit returns t+1 for a document that holds more than t+1
\* <upc> elements and whose text ends in a syntax error.
C7_Witness ==
    /\ Estimated
    /\ ~doc.wellFormed
    /\ faults.estimate = "none"
    /\ UpcTotal(doc) > max_upc_estimate + 1
    /\ max_upc_estimate = DefaultMaxUpcEstimate
    /\ upc_count = IntVal(max_upc_estimate + 1)

---------------------------------------------------------------------------
(* C8 *)

\* C8: every row of a returned table has all 20 fields, and a field whose
\* child element or attribute is missing on the manufacturer, product or
\* upc element of the row is the empty string; the table has all 20
\* columns whichever fields the document carries.
C8_MissingFieldsAreEmpty ==
    ReturnedTable =>
        /\ Len(df.columns) = 20
        /\ Range(df.columns) = Columns
        /\ \A k \in 1..Len(df.rows) : DOMAIN df.rows[k].row = Columns
        /\ \A t \in RowSources(doc) : \A c \in Columns :
              SourceMissing(doc, t, c)
                  => df.rows[Rank(t, RowSources(doc))].row[c] = ""

\* A table is returned for an older-schema document: the three optional
\* columns are there and empty while the common ones are filled.
C8_Witness ==
    /\ ReturnedTable
    /\ \A i \in 1..Len(doc.nodes) :
          doc.nodes[i].tag = "product"
              => DOMAIN doc.nodes[i].text = {"pCode", "pDesc", "qty", "qtyUnit"}
    /\ Len(df.rows) >= 2
    /\ \A k \in 1..Len(df.rows) :
          /\ df.rows[k].row.Trial_or_Revenue = ""
          /\ df.rows[k].row.Modality = ""
          /\ df.rows[k].row.Product_Type = ""
          /\ df.rows[k].row.Quantity # ""

---------------------------------------------------------------------------
(* C9 *)

\* Scenario A: one manufacturer, one product, two upc elements that carry
\* an id only.
ScenarioA ==
    MkDoc(<<"manufacturer", "product", "upc", "upc">>, "sparse", 1, TRUE)

\* C9: a returned table has one row per leaf record of the document, in
\* document traversal order (by manufacturer, then by product within the
\* manufacturer, then by upc within the product), and each row carries
\* the fields present on that upc element, on the product and on the
\* manufacturer that own it.  Scenario A gives two rows that differ in
\* UPC_ID only.
C9_RowsFollowDocumentOrder ==
    ReturnedTable =>
        LET T == RowSources(doc)
        IN  /\ Len(df.rows) = Cardinality(T)
            /\ len(df) = RowCount(doc)
            /\ \A t \in T :
                  /\ df.rows[Rank(t, T)].n = doc.nodes[t[3]].n
                  /\ \A c \in Columns :
                        ~SourceMissing(doc, t, c)
                            => df.rows[Rank(t, T)].row[c] = SourceValue(doc, t, c)
            /\ doc = ScenarioA =>
                  /\ len(df) = 2
                  /\ df.rows[1].row.UPC_ID = "id-3"
                  /\ df.rows[2].row.UPC_ID = "id-4"
                  /\ \A c \in Columns \ {"UPC_ID"} :
                        df.rows[1].row[c] = df.rows[2].row[c]
                  /\ df.rows[1].row.Manufacturer_Code = "mCode-1"
                  /\ df.rows[1].row.Product_Code = "pCode-2"

\* A table with the rows of two manufacturers, in their order.
C9_Witness ==
    /\ ReturnedTable
    /\ Len(df.rows) = 2
    /\ df.rows[1].row.Manufacturer_Code = "mCode-1"
    /\ df.rows[1].row.UPC_ID = "id-3"
    /\ df.rows[2].row.Manufacturer_Code = "mCode-4"
    /\ df.rows[2].row.UPC_ID = "id-6"

---------------------------------------------------------------------------
(* Vocabulary of the batch properties. *)

\* The file `filename` has been handed to parse_contact_lens_xml (the
\* script has not ended at the print that precedes the call).
Handed == handed # <<>> /\ filename = handed[Len(handed)]

\* The loop body has finished with the file `filename`.
Processed == Handed /\ pc \in {"loop", "final", "done"}

\* The files a table was saved for, and those reported empty.
SavedFiles == {m.file : m \in {x \in Range(console) : x.msg = "Saved"}}

EmptyFiles ==
    {m.file : m \in {x \in Range(console) : x.msg = "No <upc> elements found"}}

\* No output file has been written for the file.
NoOutputFor(f) == f \notin SavedFiles /\ \A x \in xlsx : x.source # f

\* The estimate is a count above the pre-flight limit.
EstimateAboveLimit == upc_count # None /\ upc_count.val > 1000000

---------------------------------------------------------------------------
(* C2 *)

\* C2 as stated: for every document whose full traversal gives more than
\* 1,048,576 rows, no output file is written and the log gets an entry
\* with the "too many rows" reason.
C2_Original ==
    (/\ Processed
     /\ Traversable
     /\ faults.estimate = "none"
     /\ ~logFault
     /\ RowCount(doc) > 1048576)
        => /\ NoOutputFor(filename)
           /\ \E i \in 1..Len(LinesFor(filename)) :
                 LinesFor(filename)[i].reason.kind = "Too many rows"

\* C2, amended: for every document whose full traversal gives R > 1,048,576
\* rows, no output file is written and, log writes succeeding, the log
\* gets an entry for it, whether the call then returns or the script ends:
\* with the pre-flight reason ("too many leaf records") when the estimator
\* returned a count, the full parse then never being started, and with the
\* "too many rows" reason only when the estimator returned None.
C2_OversizedDocumentIsRejected ==
    (/\ Handed
     /\ pc \in {"loop", "final", "done", "crashed"}
     /\ Traversable
     /\ RowCount(doc) > 1048576)
        => /\ NoOutputFor(filename)
           /\ df = None
           /\ ~logFault =>
                 /\ Len(LinesFor(filename)) >= 1
                 /\ IF upc_count # None
                    THEN /\ LinesFor(filename)[1].reason.kind = "Too many UPCs"
                         /\ Len(LinesFor(filename)) = 1
                         /\ filename \notin Range(parsed)
                    ELSE LinesFor(filename)[1].reason
                            = Reason("Too many rows", ToString(RowCount(doc)))

\* The estimator failed, the traversal gave more than 1,048,576 rows and
\* the "too many rows" reason was logged.
C2_Witness ==
    /\ Processed
    /\ RowCount(doc) > 1048576
    /\ upc_count = None
    /\ ~logFault
    /\ Len(LinesFor(filename)) = 1
    /\ LinesFor(filename)[1].reason.kind = "Too many rows"

---------------------------------------------------------------------------
(* C3 *)

\* C3: the parser rejects at pre-flight exactly when the estimate is a
\* count above 1,000,000.  Then the full parse is never started, no
\* output file is written and, no write to the log or to the console
\* device being refused, the call returns the rejection signal (no table)
\* and the one log entry of the file has the "too many leaf records"
\* reason with the count.  Otherwise (None, or a count of at most
\* 1,000,000) the parser goes on to the full parse and logs no such
\* reason.
C3_PreflightRejection ==
    /\ pc = "parse" => ~EstimateAboveLimit
    /\ (Handed /\ pc \in {"driver", "loop", "final", "done", "crashed"}) =>
          IF EstimateAboveLimit
          THEN /\ filename \notin Range(parsed)
               /\ NoOutputFor(filename)
               /\ (~logFault /\ ~printFault) =>
                     /\ pc # "crashed"
                     /\ df = None
                     /\ LinesFor(filename) =
                           <<[filename |-> filename,
                              reason   |-> Reason("Too many UPCs",
                                                  ToString(upc_count.val))]>>
          ELSE /\ filename \in Range(parsed)
               /\ \A i \in 1..Len(LinesFor(filename)) :
                     LinesFor(filename)[i].reason.kind # "Too many UPCs"

---------------------------------------------------------------------------
(* C4 *)

\* The exception the full parse meets, if any.
RaisedInParse ==
    IF faults.parse # "none" THEN faults.parse
    ELSE IF ~doc.wellFormed THEN "ParseError"
    ELSE "none"

\* C4: provided the log writes succeed (and the console device takes
\* what is written to it), parse_contact_lens_xml never raises; and a
\* parse failure, an out-of-memory condition or any other exception met
\* by the full parse gives the rejection signal and exactly one log entry
\* with the matching reason.
C4_FailuresAreCaughtAndLogged ==
    /\ pc = "crashed" => (logFault \/ printFault)
    /\ (Returned /\ ~logFault /\ ~printFault /\ filename \in Range(parsed)
            /\ RaisedInParse # "none") =>
          /\ df = None
          /\ Len(LinesFor(filename)) = 1
          /\ LinesFor(filename)[1].reason.kind =
                CASE RaisedInParse = "ParseError"  -> "XML parse error"
                  [] RaisedInParse = "MemoryError" -> "MemoryError"
                  [] OTHER                         -> "Unexpected error"
          /\ RaisedInParse \notin {"ParseError", "MemoryError"}
                => LinesFor(filename)[1].reason.detail = RaisedInParse

---------------------------------------------------------------------------
(* C5 *)

\* C5: for a well-formed document without any <upc> element, parsed
\* without failure, the parser returns no table, the driver writes no
\* output file and no entry is logged for the file.
C5_EmptyDocument ==
    (/\ Handed
     /\ pc \notin {"estimate", "preflight", "parse"}
     /\ UpcTotal(doc) = 0
     /\ Traversable)
        => /\ df = None
           /\ NoOutputFor(filename)
           /\ LinesFor(filename) = <<>>

---------------------------------------------------------------------------
(* C6 *)

\* A name with a case-insensitive .xml extension.
HasXmlExtension(name) ==
    /\ Len(name) >= 4
    /\ name[Len(name) - 3] = "."
    /\ name[Len(name) - 2] \in {"x", "X"}
    /\ name[Len(name) - 1] \in {"m", "M"}
    /\ name[Len(name)] \in {"l", "L"}

XmlFiles == SelectSeq(listing, HasXmlExtension)

\* C6: provided the log writes succeed (and the console device takes
\* what is written to it), no failure of a file ends the batch: the files
\* handed to the parser are, in order and once each, the files of the
\* listing with an .xml extension, and the batch reaches its completion
\* step.
C6_BatchCompletes ==
    /\ [](/\ IsPrefix(handed, XmlFiles)
          /\ pc = "crashed" => (logFault \/ printFault)
          /\ pc \in {"final", "done"} => handed = XmlFiles)
    /\ <>(pc = "done" \/ logFault \/ printFault)

---------------------------------------------------------------------------
(* C10 *)

LogReasons == {"Too many UPCs", "Too many rows", "MemoryError",
               "XML parse error", "Unexpected error", "Excel write failed"}

\* The entries this run added to the log: its lines but for the fragments
\* of refused writes.
NewEntries == SelectSeq(NewLines, LAMBDA l : l # Fragment)

\* C10: the log only grows by appending.  Each file handed to the parser
\* has at most one entry, and none together with a saved table or with an
\* output file written for it; once the loop has finished with it, it has
\* exactly one unless its table was saved or its result was empty; at the
\* end of the batch the number of new entries is the number of files
\* neither saved nor empty.  The counts are those of the runs in which the
\* console device takes what is written to it.
C10_LogIsAppendOnly ==
    /\ [][IsPrefix(log, log')]_vars
    /\ [](/\ IsPrefix(log0, log)
          /\ \A i \in 1..Len(NewEntries) :
                /\ NewEntries[i].filename \in Range(handed)
                /\ NewEntries[i].reason.kind \in LogReasons
          /\ ~printFault =>
                /\ \A f \in Range(handed) :
                      /\ Len(LinesFor(f)) <= 1
                      /\ ~(f \in SavedFiles /\ LinesFor(f) # <<>>)
                      /\ \A x \in xlsx : x.source = f => LinesFor(f) = <<>>
                      /\ (pc \in {"loop", "final", "done"}) =>
                            Len(LinesFor(f)) =
                               IF f \in SavedFiles \cup EmptyFiles THEN 0 ELSE 1
                /\ pc \in {"final", "done"} =>
                      Len(NewEntries) =
                         Cardinality(Range(handed) \ (SavedFiles \cup EmptyFiles)))

===========================================================================
